---- MODULE Spec2Model ----
(***************************************************************************)
(* Model of LitFusion (src/litfusion_api.py): the LitAPI subclass that     *)
(* provisions one diffusion pipeline in setup() and dispatches requests    *)
(* in predict() to the generator handlers generate_images, edit_images     *)
(* and generate_variations.                                                *)
(*                                                                         *)
(* The diffusers library is external: from_pretrained, from_pipe, the      *)
(* device placement and every pipeline call either return or raise, and a  *)
(* pipeline call returns a list of 0..MaxImagesPerCall images.             *)
(* predict and the handlers are Python generators; each resume of a        *)
(* generator is modelled by the positions the body passes through.         *)
(* The prompt, image and mask of a request are passed unread to the        *)
(* external pipeline call, whose outcome is a nondeterministic choice;     *)
(* model_name and quality_presets are never read after setup.              *)
(***************************************************************************)
EXTENDS Integers, Sequences, FiniteSets, TLC

\* ---------------------------------------------------------------- bounds
MaxReqN == 3
MaxMaxN == 2
MaxImagesPerCall == 2

\* ------------------------------------------------------------- constants
HandlerTypes == {"generation", "edit", "variation"}
RequestTypes == HandlerTypes \cup {"other"}
NValues == (0 - 1)..MaxReqN
MaxNValues == (0 - 1)..MaxMaxN
Sentinel == "Unknown or disabled request type"

\* the process environment: every variable holds an integer string
Envs ==
  [ENABLE_IMAGES_GENERATION : 0..1, ENABLE_IMAGE_EDITS : 0..1,
   ENABLE_IMAGE_VARIATIONS : 0..1, ENABLE_CPU_OFFLOAD : 0..1,
   ENABLE_VAE_SLICING : 0..1, ENABLE_VAE_TILING : 0..1, MAX_N : MaxNValues]

\* request mappings; a key that is missing from the mapping is missing
\* from the record's domain
Requests ==
  {[prompt |-> "p", request_type |-> t, n |-> k] : t \in RequestTypes, k \in NValues}
    \cup {[prompt |-> "p", request_type |-> t] : t \in RequestTypes}
    \cup {[prompt |-> "p", n |-> k] : k \in NValues}
    \cup {[prompt |-> "p"]}
NoRequest == [idle |-> TRUE]

\* ----------------------------------------------------------- pure helpers
\* dict.get(key, default)
Get(req, key, default) == IF key \in DOMAIN req THEN req[key] ELSE default

\* bool(int(os.getenv(...))) rendered as Python's True / False
BoolOfInt(v) == IF v # 0 THEN "True" ELSE "False"

\* Python truthiness of a field that is None, True or False
Truthy(v) == v = "True"

Min(a, b) == IF a <= b THEN a ELSE b

\* len(range(k))
RangeLen(k) == IF k > 0 THEN k ELSE 0

SelectEditFirst(gen, edit, var) ==
  IF Truthy(edit) THEN "Inpainting"
  ELSE IF Truthy(gen) THEN "Text2Image"
  ELSE IF Truthy(var) THEN "Image2Image"
  ELSE "ValueError"

SelectWithDefault(gen, edit, var) ==
  IF Truthy(gen) THEN "Text2Image"
  ELSE IF Truthy(edit) THEN "Inpainting"
  ELSE "Image2Image"

\* the if / elif / elif / else of setup that picks the pipeline family
SelectPipeline(gen, edit, var) ==
  IF Truthy(gen) THEN "Text2Image"
  ELSE IF Truthy(edit) THEN "Inpainting"
  ELSE IF Truthy(var) THEN "Image2Image"
  ELSE "ValueError"

\* the AutoPipeline class each handler derives its view with
FromPipeClass(h) ==
  IF h = "generation" THEN "Text2Image"
  ELSE IF h = "edit" THEN "Inpainting"
  ELSE "Image2Image"

CountIgnoringMaxN(req, max_n) == RangeLen(Get(req, "n", 1))

\* len(range(min(request.get('n', 1), self.max_n)))
IterationCount(req, max_n) == RangeLen(Min(Get(req, "n", 1), max_n))

\* the images of the pipeline's output list, in list order
OutputList(call, k) == [j \in 1..k |-> <<call, j>>]

CurrentImageReversed(imgs, i) == imgs[Len(imgs) + 1 - i]

\* for img in images: the i-th image the inner loop takes
CurrentImage(imgs, i) == imgs[i]

\* ----------------------------------------------------------------- state
VARIABLES env, self, phase, setupError, setupLog,
          request, predPc, predOut,
          hKind, hPc, count, iter, images, idx,
          fromPipes, calls, results, yielded, failed

vars == <<env, self, phase, setupError, setupLog, request, predPc, predOut,
          hKind, hPc, count, iter, images, idx,
          fromPipes, calls, results, yielded, failed>>

serverVars == <<env, self, phase, setupError, setupLog>>
predVars == <<request, predPc, predOut>>
handlerVars == <<hKind, hPc, count, iter, images, idx,
                 fromPipes, calls, results, yielded, failed>>

\* __init__: every field is None
Init ==
  /\ env \in Envs
  /\ self = [pipeline |-> "None", max_n |-> "None",
             enable_images_generation |-> "None",
             enable_image_edits |-> "None",
             enable_image_variations |-> "None",
             enable_cpu_offload |-> "None",
             enable_vae_slicing |-> "None",
             enable_vae_tiling |-> "None"]
  /\ phase = "constructed"
  /\ setupError = "None"
  /\ setupLog = <<>>
  /\ request = NoRequest
  /\ predPc = "idle"
  /\ predOut = <<>>
  /\ hKind = "none"
  /\ hPc = "none"
  /\ count = 0
  /\ iter = 0
  /\ images = <<>>
  /\ idx = 0
  /\ fromPipes = <<>>
  /\ calls = 0
  /\ results = <<>>
  /\ yielded = <<>>
  /\ failed = 0

\* ----------------------------------------------------------------- setup
\* the memory optimisation calls of setup, in source order
Optimisations(s) ==
  (IF Truthy(s.enable_cpu_offload)
     THEN << <<"enable_sequential_cpu_offload", "pipeline">> >> ELSE <<>>)
  \o (IF Truthy(s.enable_vae_slicing)
     THEN << <<"enable_slicing", "vae">> >> ELSE <<>>)
  \o (IF Truthy(s.enable_vae_tiling)
     THEN << <<"enable_tiling", "vae">> >> ELSE <<>>)

\* the fields setup reads from the environment
Configured(e) ==
  [pipeline |-> "None", max_n |-> e.MAX_N,
   enable_images_generation |-> BoolOfInt(e.ENABLE_IMAGES_GENERATION),
   enable_image_edits |-> BoolOfInt(e.ENABLE_IMAGE_EDITS),
   enable_image_variations |-> BoolOfInt(e.ENABLE_IMAGE_VARIATIONS),
   enable_cpu_offload |-> BoolOfInt(e.ENABLE_CPU_OFFLOAD),
   enable_vae_slicing |-> BoolOfInt(e.ENABLE_VAE_SLICING),
   enable_vae_tiling |-> BoolOfInt(e.ENABLE_VAE_TILING)]

Setup ==
  /\ phase = "constructed"
  /\ \E loadOk \in BOOLEAN, placeOk \in BOOLEAN :
       LET s == Configured(env)
           family == SelectPipeline(s.enable_images_generation,
                                    s.enable_image_edits,
                                    s.enable_image_variations)
           load == << <<"from_pretrained", family>> >>
       IN IF family = "ValueError"
            THEN /\ self' = s
                 /\ setupLog' = <<>>
                 /\ setupError' = "ValueError"
                 /\ phase' = "failed"
          ELSE IF ~loadOk
            THEN /\ self' = s
                 /\ setupLog' = load
                 /\ setupError' = "LoadError"
                 /\ phase' = "failed"
          ELSE /\ self' = [s EXCEPT !.pipeline = family]
               /\ setupLog' = load \o Optimisations(s) \o << <<"to", "cuda">> >>
               /\ setupError' = IF placeOk THEN "None" ELSE "PlacementError"
               /\ phase' = IF placeOk THEN "ready" ELSE "failed"
  /\ UNCHANGED <<env, predVars, handlerVars>>

\* --------------------------------------------------------------- predict
DispatchIgnoringFlags(req, s) ==
  LET request_type == Get(req, "request_type", "None")
  IN IF request_type \in HandlerTypes THEN request_type ELSE "sentinel"

DispatchDefaultGeneration(req, s) ==
  LET request_type == Get(req, "request_type", "None")
  IN IF request_type = "generation" /\ Truthy(s.enable_images_generation)
       THEN "generation"
     ELSE IF request_type = "edit" /\ Truthy(s.enable_image_edits)
       THEN "edit"
     ELSE IF request_type = "variation" /\ Truthy(s.enable_image_variations)
       THEN "variation"
     ELSE "generation"

DispatchOnConstructedPipeline(req, s) ==
  LET request_type == Get(req, "request_type", "None")
  IN IF request_type \in HandlerTypes
        /\ FromPipeClass(request_type) = s.pipeline
       THEN request_type
     ELSE "sentinel"

\* the if / elif / elif / else of predict: the handler the request is
\* routed to, or "sentinel"
Dispatch(req, s) ==
  LET request_type == Get(req, "request_type", "None")
  IN IF request_type = "generation" /\ Truthy(s.enable_images_generation)
       THEN "generation"
     ELSE IF request_type = "edit" /\ Truthy(s.enable_image_edits)
       THEN "edit"
     ELSE IF request_type = "variation" /\ Truthy(s.enable_image_variations)
       THEN "variation"
     ELSE "sentinel"

\* the serving harness calls predict(request): the generator is created,
\* its body has not started
Receive ==
  /\ phase = "ready"
  /\ predPc \in {"idle", "done"}
  /\ \E req \in Requests : request' = req
  /\ predPc' = "start"
  /\ predOut' = <<>>
  /\ hKind' = "none"
  /\ hPc' = "none"
  /\ count' = 0
  /\ iter' = 0
  /\ images' = <<>>
  /\ idx' = 0
  /\ fromPipes' = <<>>
  /\ calls' = 0
  /\ results' = <<>>
  /\ yielded' = <<>>
  /\ failed' = 0
  /\ UNCHANGED serverVars

\* first resume of predict: the body runs to its one yield.  Calling a
\* handler creates its generator object, whose body has not started, and
\* that object is the item predict yields.
PredictYield ==
  /\ predPc = "start"
  /\ LET h == Dispatch(request, self)
     IN IF h = "sentinel"
          THEN /\ predOut' = Append(predOut, [kind |-> "str", of |-> Sentinel])
               /\ UNCHANGED <<hKind, hPc>>
        ELSE /\ predOut' = Append(predOut, [kind |-> "generator", of |-> h])
             /\ hKind' = h
             /\ hPc' = "created"
  /\ predPc' = "yielded"
  /\ UNCHANGED <<serverVars, request, count, iter, images, idx,
                 fromPipes, calls, results, yielded, failed>>

\* second resume of predict: the body falls off its end
PredictReturn ==
  /\ predPc = "yielded"
  /\ predPc' = "done"
  /\ UNCHANGED <<serverVars, request, predOut, handlerVars>>

\* -------------------------------------------------------------- handlers
\* first resume of a handler generator: from_pipe derives the handler's
\* view of self.pipeline, then the range of the for loop is computed
HandlerStart ==
  /\ hPc = "created"
  /\ fromPipes' = Append(fromPipes, <<FromPipeClass(hKind), self.pipeline>>)
  /\ \E ok \in BOOLEAN :
       IF ok
         THEN /\ count' = IterationCount(request, self.max_n)
              /\ hPc' = "loop"
       ELSE /\ count' = count
            /\ hPc' = "raised"
  /\ iter' = 0
  /\ UNCHANGED <<serverVars, predVars, hKind, images, idx,
                 calls, results, yielded, failed>>

\* top of the for loop with iterations left: the pipeline call starts
PipelineCall ==
  /\ hPc = "loop"
  /\ iter < count
  /\ calls' = calls + 1
  /\ hPc' = "calling"
  /\ UNCHANGED <<serverVars, predVars, hKind, count, iter, images, idx,
                 fromPipes, results, yielded, failed>>

\* top of the for loop with the range exhausted: the generator returns
HandlerReturn ==
  /\ hPc = "loop"
  /\ iter >= count
  /\ hPc' = "done"
  /\ UNCHANGED <<serverVars, predVars, hKind, count, iter, images, idx,
                 fromPipes, calls, results, yielded, failed>>

\* the synchronous pipeline call completes with its list of images
PipelineReturn ==
  /\ hPc = "calling"
  /\ \E k \in 0..MaxImagesPerCall :
       /\ images' = OutputList(calls, k)
       /\ results' = Append(results, OutputList(calls, k))
  /\ idx' = 1
  /\ hPc' = "inner"
  /\ UNCHANGED <<serverVars, predVars, hKind, count, iter,
                 fromPipes, calls, yielded, failed>>

PipelineRaiseSwallowed ==
  /\ hPc = "calling"
  /\ failed' = failed + 1
  /\ iter' = iter + 1
  /\ hPc' = "loop"
  /\ UNCHANGED <<serverVars, predVars, hKind, count, images, idx,
                 fromPipes, calls, results, yielded>>

\* the pipeline call raises: nothing in the handler catches it, so the
\* generator is finished by the exception
PipelineRaise ==
  /\ hPc = "calling"
  /\ failed' = failed + 1
  /\ hPc' = "raised"
  /\ UNCHANGED <<serverVars, predVars, hKind, count, iter, images, idx,
                 fromPipes, calls, results, yielded>>

\* inner loop with an image left: yield img suspends the generator
YieldImage ==
  /\ hPc = "inner"
  /\ idx <= Len(images)
  /\ yielded' = Append(yielded, CurrentImage(images, idx))
  /\ hPc' = "suspended"
  /\ UNCHANGED <<serverVars, predVars, hKind, count, iter, images, idx,
                 fromPipes, calls, results, failed>>

\* inner loop exhausted: back to the top of the for loop
InnerDone ==
  /\ hPc = "inner"
  /\ idx > Len(images)
  /\ iter' = iter + 1
  /\ hPc' = "loop"
  /\ UNCHANGED <<serverVars, predVars, hKind, count, images, idx,
                 fromPipes, calls, results, yielded, failed>>

\* the consumer asks the suspended generator for its next item
Resume ==
  /\ hPc = "suspended"
  /\ idx' = idx + 1
  /\ hPc' = "inner"
  /\ UNCHANGED <<serverVars, predVars, hKind, count, iter, images,
                 fromPipes, calls, results, yielded, failed>>

Next ==
  \/ Setup
  \/ Receive
  \/ PredictYield
  \/ PredictReturn
  \/ HandlerStart
  \/ PipelineCall
  \/ HandlerReturn
  \/ PipelineReturn
  \/ PipelineRaise
  \/ YieldImage
  \/ InnerDone
  \/ Resume

Spec == Init /\ [][Next]_vars

\* ------------------------------------------------------ derived predicates
ReqType == Get(request, "request_type", "None")

Dispatched == predPc \in {"yielded", "done"}

FlagOf(h) ==
  IF h = "generation" THEN self.enable_images_generation
  ELSE IF h = "edit" THEN self.enable_image_edits
  ELSE self.enable_image_variations

EnabledMode == ReqType \in HandlerTypes /\ Truthy(FlagOf(ReqType))

SentinelItem == [kind |-> "str", of |-> Sentinel]

IsLoad(e) == e[1] = "from_pretrained"

IsPlacementOrOptimisation(e) == e[1] # "from_pretrained"

\* the family the environment's flags give priority to
PriorityFamily ==
  IF env.ENABLE_IMAGES_GENERATION = 1 THEN "Text2Image"
  ELSE IF env.ENABLE_IMAGE_EDITS = 1 THEN "Inpainting"
  ELSE "Image2Image"

AnyModeEnabled ==
  \/ env.ENABLE_IMAGES_GENERATION = 1
  \/ env.ENABLE_IMAGE_EDITS = 1
  \/ env.ENABLE_IMAGE_VARIATIONS = 1

RECURSIVE Flatten(_)
\* the images of the completed pipeline calls, call by call, each call's
\* images in the order of its output list
Flatten(rs) ==
  IF Len(rs) = 0 THEN <<>>
  ELSE Flatten(SubSeq(rs, 1, Len(rs) - 1)) \o rs[Len(rs)]

IsPrefix(a, b) == Len(a) <= Len(b) /\ a = SubSeq(b, 1, Len(a))

RequestedN == Get(request, "n", 1)

\* ------------------------------------------------------------------ claims
\* C1: once predict has dispatched, the request is with handler h if and
\* only if its request_type is h and h's enable flag is set; it is never
\* with a handler of another type.
C1_RoutedIffTypeAndFlag ==
  /\ Dispatched =>
       \A h \in HandlerTypes :
         (hKind = h) <=> (ReqType = h /\ Truthy(FlagOf(h)))
  /\ hKind # "none" => hKind = ReqType

C1_Witness ==
  /\ Dispatched
  /\ hKind = "edit"
  /\ ReqType = "edit"
  /\ Truthy(self.enable_images_generation)

\* C2: a request whose request_type is missing, unrecognised or disabled
\* gets exactly one item from predict, the sentinel string, and neither
\* from_pipe nor a pipeline call happens while it is handled.
C2_SentinelWithoutPipeline ==
  (predPc # "idle" /\ ~EnabledMode) =>
    /\ hKind = "none"
    /\ fromPipes = <<>>
    /\ calls = 0
    /\ predPc = "start" => predOut = <<>>
    /\ Dispatched => predOut = <<SentinelItem>>

C2_Witness ==
  /\ predPc = "done"
  /\ ReqType = "edit"
  /\ ~Truthy(self.enable_image_edits)
  /\ predOut = <<SentinelItem>>

\* C3: with at least one enable flag set, setup invokes from_pretrained
\* exactly once, for the family first in the order generation, edit,
\* variation among the enabled ones, and a completed setup holds that
\* pipeline.
C3_PriorityPipeline ==
  (phase # "constructed" /\ AnyModeEnabled) =>
    /\ SelectSeq(setupLog, IsLoad) = << <<"from_pretrained", PriorityFamily>> >>
    /\ phase = "ready" => self.pipeline = PriorityFamily
    /\ self.pipeline \in {"None", PriorityFamily}

C3_Witness ==
  /\ phase = "ready"
  /\ env.ENABLE_IMAGES_GENERATION = 0
  /\ env.ENABLE_IMAGE_EDITS = 1
  /\ env.ENABLE_IMAGE_VARIATIONS = 1
  /\ self.pipeline = "Inpainting"

\* C4: with all three enable flags off, setup raises the configuration
\* error with no pipeline constructed, self.pipeline unset, no
\* optimisation or placement step run, and the server never ready.
C4_NoModeFailsFast ==
  ~AnyModeEnabled =>
    /\ phase # "ready"
    /\ predPc = "idle"
    /\ self.pipeline = "None"
    /\ setupLog = <<>>
    /\ phase # "constructed" => (phase = "failed" /\ setupError = "ValueError")

C4_Witness ==
  /\ ~AnyModeEnabled
  /\ phase = "failed"
  /\ setupError = "ValueError"

C6_ClampedToOneMaxN ==
  (hPc = "done" /\ self.max_n >= 1) => (1 <= calls /\ calls <= self.max_n)

\* C7: for a request to an enabled mode every item predict hands over is
\* a single image, one item per produced image.
C7_ItemsAreImages ==
  (Dispatched /\ EnabledMode) =>
    /\ \A i \in 1..Len(predOut) : predOut[i].kind = "image"
    /\ hPc = "done" => Len(predOut) = Len(Flatten(results))

\* C8 as stated: an enabled request type that is not the type of the
\* constructed pipeline gets the sentinel.
C8_MismatchGetsSentinel ==
  (Dispatched /\ EnabledMode /\ FromPipeClass(ReqType) # self.pipeline) =>
    predOut = <<SentinelItem>>

\* C8 as amended: an enabled request type that is not the type of the
\* constructed pipeline is still routed to its own handler, which derives
\* its view from the constructed pipeline; the sentinel is not produced.
C8_MismatchStillRouted ==
  (Dispatched /\ EnabledMode /\ FromPipeClass(ReqType) # self.pipeline) =>
    /\ predOut = <<[kind |-> "generator", of |-> ReqType]>>
    /\ hPc # "none"
    /\ hPc # "created" =>
         fromPipes = << <<FromPipeClass(ReqType), self.pipeline>> >>

C8_Witness ==
  /\ ReqType = "edit"
  /\ self.pipeline = "Text2Image"
  /\ hKind = "edit"
  /\ hPc = "done"
  /\ Len(yielded) > 0

\* C9 as stated: when a pipeline call has failed the handler has raised
\* and no image of the request has been yielded.
C9_NoPartialResult ==
  failed > 0 => (hPc = "raised" /\ yielded = <<>>)

\* C9 as amended: when a pipeline call has failed the handler has raised,
\* that call was the last one made (no retry, no later call), no image of
\* it is yielded, and the images yielded are exactly those of the earlier
\* completed calls.
C9_RaisedAfterEarlierImages ==
  failed > 0 =>
    /\ hPc = "raised"
    /\ failed = 1
    /\ calls = Len(results) + 1
    /\ yielded = Flatten(results)

C9_Witness ==
  /\ failed = 1
  /\ hPc = "raised"
  /\ calls = 2
  /\ Len(yielded) > 0

\* C10: the images yielded are, in order, a prefix of the images of the
\* completed pipeline calls taken call by call in output-list order, and
\* while a pipeline call runs every image of every earlier call has
\* already been yielded.
C10_YieldOrder ==
  /\ IsPrefix(yielded, Flatten(results))
  /\ Len(results) <= calls
  /\ hPc = "calling" =>
       (Len(results) = calls - 1 /\ yielded = Flatten(results))
  /\ Len(results) > 0 =>
       IsPrefix(Flatten(SubSeq(results, 1, Len(results) - 1)), yielded)

C10_Witness ==
  /\ hPc = "calling"
  /\ calls = 2
  /\ Len(yielded) = 2
====
